---------------------------- MODULE Spec2Model ----------------------------
(***************************************************************************)
(* The animated equalizer of spotify_mini_player.py (class                 *)
(* EqualizerWidget): its per-bar state, the 50 ms timer callback           *)
(* update_equalizer, set_playing, and the geometry draw_equalizer computes *)
(* for every bar.                                                          *)
(*                                                                         *)
(* Numbers.  The program keeps heights, speeds and colour channels as      *)
(* Python floats.  The model keeps them as integers in units of 1/SCALE    *)
(* (0.97 is 970000).  Sums and comparisons are exact in these units.  The     *)
(* product with 0.95 is truncated to the unit: it never exceeds the        *)
(* real-number product, as in the program, where the double 0.95 is        *)
(* 0.9499999999999999556 < 19/20.                                          *)
(* random.random() is a nondeterministic choice.                           *)
(***************************************************************************)
EXTENDS Integers, Sequences, FiniteSets

VARIABLES
    bars,            \* self.bars
    bar_heights,     \* self.bar_heights, [1..bars -> height in 1/SCALE]
    bar_speeds,      \* self.bar_speeds,  [1..bars -> speed in 1/SCALE]
    bar_directions,  \* self.bar_directions, [1..bars -> {-1, 1}]
    colors,          \* self.colors, 4 RGB triples in 1/SCALE
    is_playing,      \* self.is_playing
    canvas,          \* <<width, height>> of the current frame, <<>> once a redraw is queued
    commands,        \* the bar fills of the current frame, <<>> once a redraw is queued
    last,            \* the method of the widget that ran last
    last_arg,        \* the argument of the last set_playing
    repeated,        \* the last two callbacks were set_playing with the same argument
    flips_drawn,     \* the bars whose random.random() < 0.05 in the last tick
    ticks,           \* update_equalizer calls so far
    paused_ticks,    \* non-playing ticks since is_playing last became false
    decay_from,      \* bar_heights when is_playing last became false
    touched,         \* a bar was within 1e-6 of a bound since is_playing last became true
    untouched_run,   \* playing ticks since is_playing last became true, while not touched
    quiet,           \* per bar: latest consecutive playing ticks with no flip drawn for
                     \* it that it ended away from 0.1 and 1.0
    backend,         \* the class of MediaController.controller
    mpris,           \* LinuxMPRISController.mpris is a proxy (FALSE: None)
    current_session, \* WindowsMediaController.current_session is a session (FALSE: None)
    player,          \* the media player outside the program: absent, paused or playing
    info,            \* the record the last get_track_info returned
    query,           \* what the last get_track_info did: "skipped" the metadata/status
                     \* query, or the query "raised", or it went "ok"; "none" before
    was_playing,     \* is_playing when the last update_track_info started
    handler,         \* the main-loop callback dispatched last
    sent,            \* the command the callback dispatched last delivered to the
                     \* player, "none" if it delivered none
    loaders,         \* load_cover threads that are running
    idle,            \* set_album_cover calls handed to the main loop by idle_add
    tick_at,         \* 0: no update_equalizer in progress; i: it is about to handle
                     \* bar i; bars + 1: its loop is done, queue_draw is next
    tick_branch,     \* the is_playing the update_equalizer in progress read
    tick_from        \* bar_heights when the update_equalizer in progress started

engine == <<bars, bar_heights, bar_speeds, bar_directions, colors, is_playing>>

\* MediaController, its controller, the player and the cover loader
host == <<backend, mpris, current_session, player, info, query, was_playing,
          handler, sent, loaders, idle>>

\* the position of the update_equalizer the main thread is executing
loop == <<tick_at, tick_branch, tick_from>>

vars == <<bars, bar_heights, bar_speeds, bar_directions, colors, is_playing,
          canvas, commands, last, last_arg, repeated, flips_drawn, ticks,
          paused_ticks, decay_from, touched, untouched_run, quiet,
          backend, mpris, current_session, player, info, query, was_playing,
          handler, sent, loaders, idle, tick_at, tick_branch, tick_from>>

(***************************************************************************)
(* Program constants                                                       *)
(***************************************************************************)
SCALE == 1000000

BarCount == 16

\* 0.1 and 1.0, the bounds update_equalizer clamps to
MinHeight == SCALE \div 10

MaxHeight == SCALE

\* heights[i] *= 0.95
DecayPercent == 95

\* 0.02 + random.random() * 0.06
MinSpeed == 20000

SpeedSpan == 60000

\* self.colors
Palette ==
    << <<400000, 200000, 100000>>, <<600000, 400000, 200000>>,
       <<1000000, 600000, 400000>>, <<1000000, 800000, 700000>> >>

(***************************************************************************)
(* Bounds of the model                                                     *)
(***************************************************************************)
\* playing ticks SpecPlaying follows a run in which no bar has come near a bound
MaxUntouchedRun == 1000

\* update_equalizer calls SpecPlaying explores once a bar has come near a bound
MaxPlayingTicks == 50

\* non-playing update_equalizer calls explored by SpecPaused
MaxPausedTicks == 47

\* update_equalizer calls explored by Spec
MaxTicks == 2

\* bars 1..MaxFlipBars may draw random.random() < 0.05 in a tick
MaxFlipBars == 1

\* constructor draws 0..MaxSeed
MaxSeed == 5

(***************************************************************************)
(* Construction: EqualizerWidget.__init__                                  *)
(***************************************************************************)
\* values 0.1 + random.random() * 0.9 can take
HeightSamples == <<MinHeight, 130000, 550000, 950000, 970000, MaxHeight - 1>>

\* variant: speeds drawn from 0.01 on
SpeedSamplesSlow == <<MinSpeed \div 2, 50000, MinSpeed + SpeedSpan - 1>>

\* variant: speeds drawn as 0.02 + random.random() * 0.08
SpeedSamplesWide == <<MinSpeed, 50000, MinSpeed + 80000 - 1>>

\* values 0.02 + random.random() * 0.06 can take
SpeedSamples == <<MinSpeed, 50000, MinSpeed + SpeedSpan - 1>>

\* 1 if random.random() > 0.5 else -1
DirectionSamples == <<-1, 1>>

Pick(samples, k) == samples[(k % Len(samples)) + 1]

\* within 1e-6 of 0.1 or of 1.0
NearBound(h) == h >= MaxHeight - 1 \/ h <= MinHeight + 1

\* the state the constructor leaves when it draws heights among `heights`,
\* and then `polls` (0 or 1) calls set_playing(playing)
Constructed(heights, seed, polls, playing) ==
    /\ bars = BarCount
    /\ bar_heights = [i \in 1..BarCount |-> Pick(heights, i + seed)]
    /\ bar_speeds = [i \in 1..BarCount |-> Pick(SpeedSamples, i)]
    /\ bar_directions = [i \in 1..BarCount |-> Pick(DirectionSamples, i)]
    /\ colors = Palette
    /\ is_playing = playing
    /\ canvas = <<>>
    /\ commands = <<>>
    /\ last = (IF polls = 0 THEN "__init__" ELSE "set_playing")
    /\ last_arg = playing
    /\ repeated = FALSE
    /\ flips_drawn = {}
    /\ ticks = 0
    /\ paused_ticks = 0
    /\ decay_from = bar_heights
    /\ touched = (playing /\ \E i \in 1..BarCount : NearBound(bar_heights[i]))
    /\ untouched_run = 0
    /\ quiet = [i \in 1..BarCount |-> 0]

\* the record of a poll that has not happened
NoInfo == [status |-> "", is_playing |-> FALSE, album_art |-> FALSE]

\* the widget on its own, any caller driving it: no media backend, no cover
\* loader, no update_equalizer in progress
Standalone ==
    /\ backend = "DummyController"
    /\ mpris = FALSE
    /\ current_session = FALSE
    /\ player = "absent"
    /\ info = NoInfo
    /\ query = "none"
    /\ was_playing = FALSE
    /\ handler = "__init__"
    /\ sent = "none"
    /\ loaders = 0
    /\ idle = 0
    /\ tick_at = 0
    /\ tick_branch = FALSE
    /\ tick_from = <<>>

Init ==
    /\ \E seed \in 0..MaxSeed : Constructed(HeightSamples, seed, 0, FALSE)
    /\ Standalone

(***************************************************************************)
(* set_playing                                                             *)
(***************************************************************************)
\* variant: set_playing that toggles, as play_pause does
SetPlayingToggles(playing) == IF playing THEN ~is_playing ELSE FALSE

SetPlayingValue(playing) == playing

set_playing(playing) ==
    /\ is_playing' = SetPlayingValue(playing)
    /\ last' = "set_playing"
    /\ last_arg' = playing
    /\ repeated' = (last = "set_playing" /\ last_arg = playing)
    /\ IF is_playing /\ ~is_playing'
          THEN paused_ticks' = 0 /\ decay_from' = bar_heights
          ELSE UNCHANGED <<paused_ticks, decay_from>>
    /\ IF ~is_playing /\ is_playing'
          THEN /\ touched' = \E i \in 1..bars : NearBound(bar_heights[i])
               /\ untouched_run' = 0
          ELSE UNCHANGED <<touched, untouched_run>>
    /\ UNCHANGED quiet
    /\ UNCHANGED <<bars, bar_heights, bar_speeds, bar_directions, colors,
                   canvas, commands, flips_drawn, ticks>>

(***************************************************************************)
(* update_equalizer                                                        *)
(***************************************************************************)
\* self.bar_heights[i] += self.bar_speeds[i] * self.bar_directions[i]
Advance(h, s, d) == h + s * d

\* variant: the bounce without the two height assignments
BounceHeightUnclamped(h) == h

\* the height the bounce leaves, from the advanced height
BounceHeight(h) ==
    IF h >= MaxHeight THEN MaxHeight
    ELSE IF h <= MinHeight THEN MinHeight
    ELSE h

\* variant: the bounce tests written > and <
BounceDirectionStrict(h, d) ==
    IF h > MaxHeight THEN -1
    ELSE IF h < MinHeight THEN 1
    ELSE d

\* the direction the bounce leaves, from the advanced height
BounceDirection(h, d) ==
    IF h >= MaxHeight THEN -1
    ELSE IF h <= MinHeight THEN 1
    ELSE d

\* variant: the flip written -= instead of *= -1
FlipToZero(d, drawn) == IF drawn THEN d - d ELSE d

\* if random.random() < 0.05: self.bar_directions[i] *= -1
Flip(d, drawn) == IF drawn THEN d * (-1) ELSE d

\* variant: the decay without the floor
DecayNoFloor(h) == (h * DecayPercent) \div 100

\* variant: the decay with factor 0.96
DecaySlow(h) ==
    LET h1 == (h * 96) \div 100
    IN  IF h1 < MinHeight THEN MinHeight ELSE h1

\* self.bar_heights[i] *= 0.95, then the floor
Decay(h) ==
    LET h1 == (h * DecayPercent) \div 100
    IN  IF h1 < MinHeight THEN MinHeight ELSE h1

PlayingHeights ==
    [i \in 1..bars |->
        BounceHeight(Advance(bar_heights[i], bar_speeds[i], bar_directions[i]))]

\* variant: the random flip applied before the bounce test
PlayingDirectionsFlipFirst(flips) ==
    [i \in 1..bars |->
        BounceDirection(Advance(bar_heights[i], bar_speeds[i], bar_directions[i]),
                        Flip(bar_directions[i], i \in flips))]

PlayingDirections(flips) ==
    [i \in 1..bars |->
        Flip(BounceDirection(Advance(bar_heights[i], bar_speeds[i], bar_directions[i]),
                             bar_directions[i]),
             i \in flips)]

\* flips: the bars whose random.random() < 0.05 in this tick
update_equalizer(flips) ==
    /\ IF is_playing
          THEN /\ bar_heights' = PlayingHeights
               /\ bar_directions' = PlayingDirections(flips)
               /\ flips_drawn' = flips
               /\ touched' = (touched \/ \E i \in 1..bars : NearBound(bar_heights'[i]))
               /\ untouched_run' = (IF touched' THEN 0 ELSE untouched_run + 1)
               /\ quiet' = [i \in 1..bars |->
                               IF i \in flips \/ bar_heights'[i] \in {MinHeight, MaxHeight}
                                  THEN 0 ELSE quiet[i] + 1]
               /\ UNCHANGED paused_ticks
          ELSE /\ bar_heights' = [i \in 1..bars |-> Decay(bar_heights[i])]
               /\ UNCHANGED bar_directions
               /\ flips_drawn' = {}
               /\ paused_ticks' = paused_ticks + 1
               /\ quiet' = [i \in 1..bars |-> 0]
               /\ UNCHANGED <<touched, untouched_run>>
    \* self.queue_draw(): the frame drawn before is no longer current
    /\ canvas' = <<>>
    /\ commands' = <<>>
    /\ ticks' = ticks + 1
    /\ last' = "update_equalizer"
    /\ last_arg' = FALSE
    /\ repeated' = FALSE
    /\ UNCHANGED <<bars, bar_speeds, colors, is_playing, decay_from>>

(***************************************************************************)
(* draw_equalizer.  x and bar_width are in 1/bars pixel (width / self.bars *)
(* is exact there), bar_height and y in 1/SCALE pixel.                     *)
(***************************************************************************)
\* the canvas widths and heights the toolkit may pass (200 x 60 is requested)
Widths == {0, 200}

Heights == {0, 60}

\* x = i * bar_width, bar_width = width / self.bars, i counted from 0
BarX(i, width) == (i - 1) * width

\* bar_height = self.bar_heights[i] * (height - 10)
BarPixelHeight(h, height) == h * (height - 10)

\* variant: y = height - bar_height, no bottom margin
BarYNoMargin(h, height) == height * SCALE - BarPixelHeight(h, height)

\* y = height - bar_height - 5
BarY(h, height) == height * SCALE - BarPixelHeight(h, height) - 5 * SCALE

Min(a, b) == IF a <= b THEN a ELSE b

\* variant: the height scaled by len(self.colors) - 1
ColorIndexShort(h) == Min((h * (Len(colors) - 1)) \div SCALE, Len(colors) - 1)

\* min(int(self.bar_heights[i] * len(self.colors)), len(self.colors) - 1)
ColorIndex(h) == Min((h * Len(colors)) \div SCALE, Len(colors) - 1)

\* the three add_color_stop_rgba calls: r * 0.6, r, r * 1.2 per channel
GradientStops(c) ==
    << [k \in 1..3 |-> (c[k] * 6) \div 10], c, [k \in 1..3 |-> (c[k] * 12) \div 10] >>

\* one bar: its gradient and the filled path
BarFill(i, width, height) ==
    [ x          |-> BarX(i, width),
      bar_width  |-> width,
      bar_height |-> BarPixelHeight(bar_heights[i], height),
      y          |-> BarY(bar_heights[i], height),
      color_index |-> ColorIndex(bar_heights[i]),
      stops      |-> GradientStops(colors[ColorIndex(bar_heights[i]) + 1]) ]

\* for i in range(self.bars): ... cr.fill()
BarFills(width, height) == [i \in 1..bars |-> BarFill(i, width, height)]

draw_equalizer(width, height) ==
    /\ canvas' = <<width, height>>
    /\ commands' = BarFills(width, height)
    /\ last' = "draw_equalizer"
    /\ last_arg' = FALSE
    /\ repeated' = FALSE
    /\ UNCHANGED <<bars, bar_heights, bar_speeds, bar_directions, colors,
                   is_playing, flips_drawn, ticks, paused_ticks, decay_from,
                   touched, untouched_run, quiet>>

(***************************************************************************)
(* Specification                                                           *)
(***************************************************************************)
Tick ==
    /\ ticks < MaxTicks
    /\ \E flips \in SUBSET (1..MaxFlipBars) : update_equalizer(flips)
    /\ UNCHANGED <<host, loop>>

SetPlaying ==
    /\ \E playing \in BOOLEAN : set_playing(playing)
    /\ UNCHANGED <<host, loop>>

Draw ==
    /\ \E width \in Widths, height \in Heights : draw_equalizer(width, height)
    /\ UNCHANGED <<host, loop>>

Next == Tick \/ SetPlaying \/ Draw

Spec == Init /\ [][Next]_vars

(***************************************************************************)
(* The paused regime: is_playing has become false (at construction, or by  *)
(* set_playing(False) after playing ticks, when a bar that bounced is at   *)
(* exactly 1.0) and every later poll reports False again.                  *)
(***************************************************************************)
PausedHeightSamples ==
    <<MaxHeight, MaxHeight - 1, 955348, 955347, 550000, 105264, 105263, MinHeight + 1,
      MinHeight>>

InitPaused ==
    /\ \E seed \in 0..MaxSeed : Constructed(PausedHeightSamples, seed, 1, FALSE)
    /\ Standalone

PausedTick ==
    /\ paused_ticks < MaxPausedTicks
    /\ update_equalizer({})
    /\ UNCHANGED <<host, loop>>

PausedPoll == set_playing(FALSE) /\ UNCHANGED <<host, loop>>

NextPaused == PausedTick \/ PausedPoll

SpecPaused == InitPaused /\ [][NextPaused]_vars

(***************************************************************************)
(* The playing regime: the first poll after construction reported playing, *)
(* and every later poll reports playing again.  Until a bar first comes    *)
(* near a bound, a tick draws a flip for no bar or for every bar; from     *)
(* then on no flip is drawn.                                               *)
(***************************************************************************)
InteriorHeightSamples == <<200000, 550000, 900000>>

InitPlaying ==
    /\ \E seed \in 0..MaxSeed : Constructed(InteriorHeightSamples, seed, 1, TRUE)
    /\ Standalone

PlayingFlips == IF touched THEN {{}} ELSE {{}, 1..bars}

PlayingTick ==
    /\ IF touched THEN ticks < MaxPlayingTicks ELSE untouched_run < MaxUntouchedRun
    /\ \E flips \in PlayingFlips : update_equalizer(flips)
    /\ UNCHANGED <<host, loop>>

PlayingPoll == set_playing(TRUE) /\ UNCHANGED <<host, loop>>

NextPlaying == PlayingTick \/ PlayingPoll

SpecPlaying == InitPlaying /\ [][NextPlaying]_vars

(***************************************************************************)
(* The host: MediaController and its controller, the player it talks to,   *)
(* the handlers of SpotifyMiniPlayer and the cover loader thread.  A       *)
(* record of get_track_info keeps status, is_playing and whether album_art *)
(* is a URL; title and artist only go to labels.                           *)
(***************************************************************************)
\* the classes MediaController.__init__ can pick
Backends ==
    {"LinuxMPRISController", "WindowsMediaController", "WindowsCOMController",
     "DummyController"}

Players == {"absent", "paused", "playing"}

\* the calls the handlers make on the controller
Commands == {"PlayPause", "Next", "Previous", "Volume"}

\* cover loads in flight at a time: load_cover threads running plus
\* set_album_cover calls pending in the main loop
MaxCovers == 1

\* update_equalizer calls explored by SpecHost
MaxHostTicks == 1

\* update_equalizer calls explored by SpecLoop
MaxLoopTicks == 1

\* the state MediaController() leaves: backend b picked from the platform
\* flags, the player in state p, the connection attempt of the controller's
\* constructor succeeding (connects) or not
HostConstructed(b, p, connects) ==
    /\ backend = b
    /\ player = p
    /\ mpris = (b = "LinuxMPRISController" /\ p # "absent" /\ connects)
    /\ current_session = (b = "WindowsMediaController" /\ p # "absent" /\ connects)
    /\ info = NoInfo
    /\ query = "none"
    /\ was_playing = FALSE
    /\ handler = "__init__"
    /\ sent = "none"
    /\ loaders = 0
    /\ idle = 0
    /\ tick_at = 0
    /\ tick_branch = FALSE
    /\ tick_from = <<>>

NotConnected == [status |-> "Not connected", is_playing |-> FALSE, album_art |-> FALSE]

\* variant: the except branch reporting the state the equalizer is in
ErrorInfoStale == [status |-> "Error", is_playing |-> is_playing, album_art |-> FALSE]

\* the record of the except branches
ErrorInfo == [status |-> "Error", is_playing |-> FALSE, album_art |-> FALSE]

Offline == [status |-> "Offline", is_playing |-> FALSE, album_art |-> FALSE]

Unknown == [status |-> "Unknown", is_playing |-> FALSE, album_art |-> FALSE]

\* the record built from the player's metadata and playback status
Reported(art) ==
    [status |-> (IF player = "playing" THEN "Playing" ELSE "Paused"),
     is_playing |-> (player = "playing"),
     album_art |-> art]

\* variant: get_track_info looking the player up again, as
\* WindowsMediaController does
LinuxHandleRetry == mpris \/ player # "absent"

\* `if not self.mpris`: the proxy the constructor stored
LinuxHandle == mpris

LinuxGetTrackInfo(raises, art) ==
    IF ~LinuxHandle THEN NotConnected
    ELSE IF raises THEN ErrorInfo
    ELSE Reported(art)

\* current_session after `if not self.current_session: self.find_spotify_session()`
WindowsSession(found) == current_session \/ (found /\ player # "absent")

WindowsGetTrackInfo(found, raises) ==
    IF ~WindowsSession(found) THEN NotConnected
    ELSE IF raises THEN ErrorInfo
    ELSE Reported(FALSE)

\* found: tasklist lists Spotify.exe; titled: its window title holds ' - '
COMGetTrackInfo(found, raises, titled) ==
    IF ~(found /\ player # "absent") THEN NotConnected
    ELSE IF ~raises /\ titled
            THEN [status |-> "Playing", is_playing |-> TRUE, album_art |-> FALSE]
            ELSE Unknown

\* MediaController.get_track_info
get_track_info(found, raises, art) ==
    CASE backend = "LinuxMPRISController" -> LinuxGetTrackInfo(raises, art)
      [] backend = "WindowsMediaController" -> WindowsGetTrackInfo(found, raises)
      [] backend = "WindowsCOMController" -> COMGetTrackInfo(found, raises, art)
      [] OTHER -> Offline

\* whether that get_track_info skipped the query for lack of a backend,
\* connection, session or process, or the query raised
Query(found, raises) ==
    CASE backend = "LinuxMPRISController" ->
            (IF ~LinuxHandle THEN "skipped" ELSE IF raises THEN "raised" ELSE "ok")
      [] backend = "WindowsMediaController" ->
            (IF ~WindowsSession(found) THEN "skipped"
             ELSE IF raises THEN "raised" ELSE "ok")
      [] backend = "WindowsCOMController" ->
            (IF ~(found /\ player # "absent") THEN "skipped"
             ELSE IF raises THEN "raised" ELSE "ok")
      [] OTHER -> "skipped"

\* a query on a player that is gone raises; on a live one it may
Raises == IF player = "absent" THEN {TRUE} ELSE BOOLEAN

\* variant: handlers dispatched while another callback is running
MainLoopReentrant == TRUE

\* the main loop dispatches a callback when no callback is running
MainLoopIdle == tick_at = 0

update_track_info(found, raises, art) ==
    LET rec == get_track_info(found, raises, art)
    IN  /\ MainLoopIdle
        /\ rec.album_art => loaders + idle < MaxCovers
        /\ info' = rec
        /\ query' = Query(found, raises)
        /\ was_playing' = is_playing
        /\ current_session' =
              (IF backend = "WindowsMediaController"
                  THEN WindowsSession(found) ELSE current_session)
        /\ set_playing(rec.is_playing)
        \* load_album_cover: threading.Thread(target=load_cover).start()
        /\ loaders' = (IF rec.album_art THEN loaders + 1 ELSE loaders)
        /\ handler' = "update_track_info"
        /\ sent' = "none"
        /\ UNCHANGED <<backend, mpris, player, idle, loop>>

\* the controller's play_pause, next_track, previous_track, set_volume: the
\* call reaches the player
Delivered(cmd, raises) ==
    /\ ~raises
    /\ player # "absent"
    /\ CASE backend = "LinuxMPRISController" -> mpris
         [] backend = "WindowsMediaController" -> current_session /\ cmd # "Volume"
         [] backend = "WindowsCOMController" -> cmd # "Volume"
         [] OTHER -> FALSE

HandlerOf(cmd) ==
    CASE cmd = "PlayPause" -> "on_play_clicked"
      [] cmd = "Next" -> "on_next_clicked"
      [] cmd = "Previous" -> "on_previous_clicked"
      [] OTHER -> "on_volume_changed"

\* the player's reaction to PlayPause
Toggle(p) == IF p = "playing" THEN "paused" ELSE "playing"

\* what surrounds the engine in the widget: the frame and the history
widget == <<canvas, commands, last, last_arg, repeated, flips_drawn, ticks,
            paused_ticks, decay_from, touched, untouched_run, quiet>>

\* variant: a button handler that flips the equalizer at once
ClickEngineToggles ==
    /\ is_playing' = ~is_playing
    /\ UNCHANGED <<bars, bar_heights, bar_speeds, bar_directions, colors, widget>>

\* the button and volume handlers call the media controller and nothing of
\* the equalizer
ClickEngine == UNCHANGED <<engine, widget>>

on_clicked(cmd, raises) ==
    /\ MainLoopIdle
    /\ handler' = HandlerOf(cmd)
    /\ sent' = (IF Delivered(cmd, raises) THEN cmd ELSE "none")
    /\ player' = (IF Delivered(cmd, raises) /\ cmd = "PlayPause"
                     THEN Toggle(player) ELSE player)
    /\ ClickEngine
    /\ UNCHANGED <<backend, mpris, current_session, info, query, was_playing,
                   loaders, idle, loop>>

\* the thread load_cover: the download works (ok) and the bytes go to the
\* main loop with idle_add, or it raises and prints
load_cover(ok) ==
    /\ loaders > 0
    /\ loaders' = loaders - 1
    /\ idle' = (IF ok THEN idle + 1 ELSE idle)
    /\ UNCHANGED <<engine, widget, backend, mpris, current_session, player, info,
                   query, was_playing, handler, sent, loop>>

set_album_cover ==
    /\ MainLoopIdle
    /\ idle > 0
    /\ idle' = idle - 1
    /\ handler' = "set_album_cover"
    /\ sent' = "none"
    /\ UNCHANGED <<engine, widget, backend, mpris, current_session, player, info,
                   query, was_playing, loaders, loop>>

\* the player starts, stops, pauses or resumes on its own
PlayerChanges(p) ==
    /\ p # player
    /\ player' = p
    /\ UNCHANGED <<engine, widget, backend, mpris, current_session, info, query,
                   was_playing, handler, sent, loaders, idle, loop>>

(***************************************************************************)
(* The program: the widget inside SpotifyMiniPlayer, every callback run to *)
(* its end by the main loop.                                               *)
(***************************************************************************)
InitHost ==
    /\ Constructed(HeightSamples, 0, 0, FALSE)
    /\ \E b \in Backends, p \in Players, connects \in BOOLEAN :
          HostConstructed(b, p, connects)

HostTick ==
    /\ MainLoopIdle
    /\ ticks < MaxHostTicks
    /\ \E flips \in {{}, 1..MaxFlipBars} : update_equalizer(flips)
    /\ handler' = "update_equalizer"
    /\ sent' = "none"
    /\ UNCHANGED <<backend, mpris, current_session, player, info, query,
                   was_playing, loaders, idle, loop>>

\* the frame of the size the widget requests
HostDraw ==
    /\ MainLoopIdle
    /\ draw_equalizer(200, 60)
    /\ handler' = "draw_equalizer"
    /\ sent' = "none"
    /\ UNCHANGED <<backend, mpris, current_session, player, info, query,
                   was_playing, loaders, idle, loop>>

\* found is read by the Windows controllers, art by the Linux one (the URL)
\* and the COM one (the title)
HostPoll ==
    \E found \in (IF backend \in {"WindowsMediaController", "WindowsCOMController"}
                     THEN BOOLEAN ELSE {FALSE}),
       raises \in Raises,
       art \in (IF backend \in {"LinuxMPRISController", "WindowsCOMController"}
                   THEN BOOLEAN ELSE {FALSE}) :
       update_track_info(found, raises, art)

HostClick ==
    \E cmd \in Commands, raises \in (IF player = "absent" THEN {TRUE} ELSE BOOLEAN) :
       on_clicked(cmd, raises)

HostLoader == \E ok \in BOOLEAN : load_cover(ok)

HostCover == set_album_cover

HostPlayer == \E p \in Players : PlayerChanges(p)

NextHost ==
    HostTick \/ HostDraw \/ HostPoll \/ HostClick \/ HostLoader \/ HostCover
       \/ HostPlayer

SpecHost == InitHost /\ [][NextHost]_vars

(***************************************************************************)
(* The main thread step by step: update_equalizer handles one bar per      *)
(* step, and the load_cover thread and the player move between its steps.  *)
(* The Linux backend, connected at construction.                           *)
(***************************************************************************)
InitLoop ==
    /\ Constructed(HeightSamples, 0, 0, FALSE)
    /\ \E p \in {"paused", "playing"} : HostConstructed("LinuxMPRISController", p, TRUE)

\* update_equalizer is dispatched and reads self.is_playing
TickBegin ==
    /\ MainLoopIdle
    /\ ticks < MaxLoopTicks
    /\ tick_at' = 1
    /\ tick_branch' = is_playing
    /\ tick_from' = bar_heights
    /\ flips_drawn' = {}
    /\ last' = "update_equalizer"
    /\ last_arg' = FALSE
    /\ repeated' = FALSE
    /\ handler' = "update_equalizer"
    /\ sent' = "none"
    /\ UNCHANGED <<engine, canvas, commands, ticks, paused_ticks, decay_from,
                   touched, untouched_run, quiet, backend, mpris, current_session,
                   player, info, query, was_playing, loaders, idle>>

\* one pass of `for i in range(self.bars)`, for bar tick_at
TickBar ==
    /\ tick_at \in 1..bars
    /\ IF tick_branch
          THEN \E drawn \in (IF tick_at <= MaxFlipBars THEN BOOLEAN ELSE {FALSE}) :
                  /\ bar_heights' =
                        [bar_heights EXCEPT ![tick_at] =
                            BounceHeight(Advance(bar_heights[tick_at],
                                                 bar_speeds[tick_at],
                                                 bar_directions[tick_at]))]
                  /\ bar_directions' =
                        [bar_directions EXCEPT ![tick_at] =
                            Flip(BounceDirection(Advance(bar_heights[tick_at],
                                                         bar_speeds[tick_at],
                                                         bar_directions[tick_at]),
                                                 bar_directions[tick_at]),
                                 drawn)]
                  /\ flips_drawn' = (IF drawn THEN flips_drawn \cup {tick_at}
                                     ELSE flips_drawn)
          ELSE /\ bar_heights' = [bar_heights EXCEPT ![tick_at] = Decay(bar_heights[tick_at])]
               /\ UNCHANGED <<bar_directions, flips_drawn>>
    /\ tick_at' = tick_at + 1
    /\ UNCHANGED <<bars, bar_speeds, colors, is_playing, canvas, commands, last,
                   last_arg, repeated, ticks, paused_ticks, decay_from, touched,
                   untouched_run, quiet, host, tick_branch, tick_from>>

\* self.queue_draw(); return True
TickEnd ==
    /\ tick_at = bars + 1
    /\ canvas' = <<>>
    /\ commands' = <<>>
    /\ ticks' = ticks + 1
    /\ IF tick_branch
          THEN /\ touched' = (touched \/ \E i \in 1..bars : NearBound(bar_heights[i]))
               /\ untouched_run' = (IF touched' THEN 0 ELSE untouched_run + 1)
               /\ quiet' = [i \in 1..bars |->
                               IF i \in flips_drawn \/ bar_heights[i] \in {MinHeight, MaxHeight}
                                  THEN 0 ELSE quiet[i] + 1]
               /\ UNCHANGED paused_ticks
          ELSE /\ paused_ticks' = paused_ticks + 1
               /\ quiet' = [i \in 1..bars |-> 0]
               /\ UNCHANGED <<touched, untouched_run>>
    /\ tick_at' = 0
    /\ tick_branch' = FALSE
    /\ tick_from' = <<>>
    /\ UNCHANGED <<engine, last, last_arg, repeated, flips_drawn, decay_from, host>>

NextLoop ==
    TickBegin \/ TickBar \/ TickEnd \/ HostDraw \/ HostPoll \/ HostLoader
       \/ HostCover \/ HostPlayer

SpecLoop == InitLoop /\ [][NextLoop]_vars

(***************************************************************************)
(* Properties                                                              *)
(***************************************************************************)
\* a step of update_equalizer
IsTick == ticks' = ticks + 1

\* what bar i's height becomes before the bounce test of a playing tick
Advanced(i) == bar_heights[i] + bar_speeds[i] * bar_directions[i]

\* C1: in every reachable state every bar height lies in [0.1, 1.0], bounds
\* included, whatever ticks and set_playing calls came before.
BoundsInvariant ==
    \A i \in 1..bars : SCALE <= 10 * bar_heights[i] /\ bar_heights[i] <= SCALE

\* C1 witness: after playing ticks one bar has been clamped at 1.0 and another
\* at 0.1.
BoundsWitness ==
    /\ is_playing
    /\ last = "update_equalizer"
    /\ \E i, j \in 1..bars :
          /\ bar_heights[i] = SCALE /\ decay_from[i] + bar_speeds[i] > SCALE
          /\ 10 * bar_heights[j] = SCALE /\ 10 * (decay_from[j] - bar_speeds[j]) < SCALE

\* 0.1 / 0.95^n for n = 0..45, rounded down to the unit: a height h0 satisfies
\* h0 * 0.95^n <= 0.1 exactly when h0 <= DecayThresholds[n + 1]
DecayThresholds ==
    <<
       100000, 105263, 110803, 116635, 122773, 129235,
       136037, 143197, 150733, 158667, 167018, 175808,
       185061, 194801, 205054, 215846, 227207, 239165,
       251753, 265003, 278950, 293632, 309086, 325354,
       342478, 360503, 379477, 399450, 420473, 442604,
       465899, 490420, 516231, 543401, 572001, 602107,
       633797, 667154, 702268, 739229, 778136, 819091,
       862201, 907580, 955347, 1005628 >>

\* ceil(log(0.1 / h0) / log(0.95)): the least n with h0 * 0.95^n <= 0.1
DecaySteps(h0) ==
    CHOOSE n \in 0..45 :
       /\ h0 <= DecayThresholds[n + 1]
       /\ \A m \in 0..(n - 1) : h0 > DecayThresholds[m + 1]

\* C2: while is_playing stays false, a bar that was at height h0 when the
\* paused run began is at exactly 0.1 after ceil(log(0.1/h0)/log(0.95)) ticks
\* (45 for h0 = 1.0) and on every later tick of the run.
DecayConvergence ==
    ~is_playing =>
       \A i \in 1..bars :
          paused_ticks >= DecaySteps(decay_from[i]) => 10 * bar_heights[i] = SCALE

\* C2 witness: 45 non-playing ticks after a bar was at 1.0, it is at 0.1; a bar
\* that needs two ticks and a bar that needs one are there too.
DecayWitness ==
    /\ ~is_playing /\ paused_ticks = 45
    /\ \E i \in 1..bars : decay_from[i] = SCALE /\ 10 * bar_heights[i] = SCALE
    /\ \E i \in 1..bars : DecaySteps(decay_from[i]) = 2 /\ 10 * bar_heights[i] = SCALE
    /\ \E i \in 1..bars : DecaySteps(decay_from[i]) = 1 /\ 10 * bar_heights[i] = SCALE

\* C3: a frame drawn on a canvas of width 0 or of height 0 holds no bar fill.
EmptyOnDegenerateCanvas ==
    (canvas # <<>> /\ (canvas[1] = 0 \/ canvas[2] = 0)) => Len(commands) = 0

\* C4: in a playing tick a bar for which no flip is drawn ends at height 1.0
\* with direction -1 when height + speed * direction >= 1.0, and at height 0.1
\* with direction +1 when height + speed * direction <= 0.1.
BounceStep ==
    [][(IsTick /\ is_playing) =>
          \A i \in (1..bars) \ flips_drawn' :
             /\ Advanced(i) >= SCALE =>
                   bar_heights'[i] = SCALE /\ bar_directions'[i] = -1
             /\ 10 * Advanced(i) <= SCALE =>
                   10 * bar_heights'[i] = SCALE /\ bar_directions'[i] = 1]_vars

\* C4 witness: the bar that started at height 0.97, direction +1, speed 0.05
\* has made one playing tick without a flip and is at 1.0, direction -1; a bar
\* that moved down onto the floor is at 0.1, direction +1.
BounceWitness ==
    /\ ticks = 1 /\ is_playing /\ flips_drawn = {}
    /\ decay_from[1] = 970000 /\ bar_speeds[1] = 50000
    /\ bar_heights[1] = SCALE /\ bar_directions[1] = -1
    /\ \E j \in 1..bars :
          /\ decay_from[j] = 130000 /\ bar_speeds[j] = 50000
          /\ 10 * bar_heights[j] = SCALE /\ bar_directions[j] = 1

\* C5: set_playing(p) makes is_playing equal to p and leaves bar_heights,
\* bar_speeds, bar_directions, bars and colors as they were; a second
\* set_playing(p) right after the first leaves the whole state of the first.
SetPlayingFrame ==
    [][last' = "set_playing" =>
          /\ is_playing' = last_arg'
          /\ UNCHANGED <<bars, bar_heights, bar_speeds, bar_directions, colors>>
          /\ repeated' => engine' = engine]_vars

\* C5 witness: set_playing(true) has been called twice in a row on an
\* equalizer that has ticked.
SetPlayingWitness ==
    /\ last = "set_playing" /\ repeated /\ last_arg /\ is_playing /\ ticks > 0

\* C6: bar_heights, bar_speeds and bar_directions have exactly 16 entries
\* each, bars stays 16, and every direction is -1 or +1.
ShapeInvariant ==
    /\ bars = 16
    /\ DOMAIN bar_heights = 1..16
    /\ DOMAIN bar_speeds = 1..16
    /\ DOMAIN bar_directions = 1..16
    /\ \A i \in 1..16 : bar_directions[i] \in {-1, 1}

\* C6 witness: a playing tick in which a flip was drawn, after a set_playing.
ShapeWitness ==
    /\ ticks = 2 /\ is_playing /\ last = "update_equalizer" /\ flips_drawn # {}
    /\ \E i \in 1..bars : bar_heights[i] = SCALE

\* C7: a tick with is_playing false sets every height to
\* max(0.95 * height, 0.1), raises no height, and leaves directions, speeds
\* and is_playing unchanged.
PausedTickStep ==
    [][(IsTick /\ ~is_playing) =>
          /\ \A i \in 1..bars :
                /\ bar_heights'[i] =
                      (IF 10 * ((95 * bar_heights[i]) \div 100) < SCALE
                          THEN SCALE \div 10
                          ELSE (95 * bar_heights[i]) \div 100)
                /\ bar_heights'[i] <= bar_heights[i]
          /\ UNCHANGED <<bar_directions, bar_speeds, is_playing>>]_vars

\* C7 witness: two non-playing ticks; one bar decayed above the floor, one was
\* put back on the floor.
PausedTickWitness ==
    /\ ~is_playing /\ paused_ticks = 2 /\ last = "update_equalizer"
    /\ \E i, j \in 1..bars :
          /\ decay_from[i] = 970000 /\ bar_heights[i] = 875425
          /\ 10 * decay_from[j] = SCALE /\ 10 * bar_heights[j] = SCALE

\* C8: the band drawn for a bar of height h is min(floor(4h), 3); it is one
\* of 0..3, it does not decrease as h grows, and h = 1.0 gets band 3.
ColorBandInvariant ==
    commands # <<>> =>
       /\ \A i \in 1..bars :
             /\ commands[i].color_index \in 0..3
             /\ commands[i].color_index =
                   (IF (4 * bar_heights[i]) \div SCALE < 3
                       THEN (4 * bar_heights[i]) \div SCALE ELSE 3)
             /\ bar_heights[i] = SCALE => commands[i].color_index = 3
       /\ \A i, j \in 1..bars :
             bar_heights[i] <= bar_heights[j] =>
                commands[i].color_index <= commands[j].color_index

\* C8 witness: a drawn frame with a bar at 1.0 in band 3 and bars in bands
\* 0, 1 and 2.
ColorBandWitness ==
    /\ last = "draw_equalizer"
    /\ \E i \in 1..bars : bar_heights[i] = SCALE /\ commands[i].color_index = 3
    /\ \A b \in 0..2 : \E i \in 1..bars : commands[i].color_index = b

\* C9: every speed is in [0.02, 0.08) at construction and no step changes a
\* speed.
SpeedsFixed ==
    [][/\ \A i \in 1..bars : 2 * SCALE <= 100 * bar_speeds[i] /\ 100 * bar_speeds[i] < 8 * SCALE
       /\ bar_speeds' = bar_speeds]_vars

\* C9 witness: speeds are the constructed ones after playing ticks with a
\* bounce and a flip, and after a non-playing tick.
SpeedsWitness ==
    /\ ticks = 2 /\ last = "set_playing"
    /\ flips_drawn # {}
    /\ \E i \in 1..bars : bar_heights[i] = SCALE /\ bar_directions[i] = -1
    /\ bar_speeds = [i \in 1..BarCount |-> Pick(SpeedSamples, i)]

\* C10 as stated: with is_playing held true from a constructed state, some bar
\* comes within 1e-6 of 0.1 or of 1.0 in the first 1000 ticks.
OscillationWithin1000 == is_playing => untouched_run < 1000

\* C10, amended: while is_playing stays true, no bar goes 45 ticks in a row
\* without a flip drawn for it and without ending a tick at exactly 0.1 or
\* 1.0: a bar left alone by the random flips reaches a bound within 45 ticks.
OscillationWithoutFlips ==
    is_playing => \A i \in 1..bars : quiet[i] < 45

\* C10 witness: a bar of speed 0.02 has climbed 44 ticks without a flip and
\* reaches 1.0 in the next tick; flips were drawn earlier in the run.
OscillationWitness ==
    /\ is_playing /\ touched
    /\ \E i \in 1..bars :
          /\ quiet[i] = 44 /\ 100 * bar_speeds[i] = 2 * SCALE
          /\ bar_directions[i] = 1 /\ Advanced(i) >= SCALE
    /\ \E j \in 1..bars : quiet[j] < ticks /\ bar_heights[j] \notin {SCALE \div 10, SCALE}

\* C13: in a drawn frame every channel of every bar's three gradient stops
\* (0.6 x colour, colour, 1.2 x colour) lies in [0, 1].
GradientStopsInRange ==
    commands # <<>> =>
       \A i \in 1..bars : \A s \in 1..3 : \A k \in 1..3 :
          0 <= commands[i].stops[s][k] /\ commands[i].stops[s][k] <= SCALE

\* C14: in a playing tick every bar's height becomes the advanced height
\* clamped to [0.1, 1.0] whether or not a flip is drawn for it, and a bar for
\* which a flip is drawn ends with the direction of the bounce test negated:
\* height 1.0 and direction +1 when it hit the upper bound, height 0.1 and
\* direction -1 when it hit the floor, its old direction negated otherwise.
ClampThenFlip ==
    [][(IsTick /\ is_playing) =>
          \A i \in 1..bars :
             /\ bar_heights'[i] =
                   (IF Advanced(i) >= SCALE THEN SCALE
                    ELSE IF 10 * Advanced(i) <= SCALE THEN SCALE \div 10
                    ELSE Advanced(i))
             /\ i \in flips_drawn' =>
                   /\ Advanced(i) >= SCALE =>
                         bar_heights'[i] = SCALE /\ bar_directions'[i] = 1
                   /\ 10 * Advanced(i) <= SCALE =>
                         10 * bar_heights'[i] = SCALE /\ bar_directions'[i] = -1
                   /\ (Advanced(i) < SCALE /\ 10 * Advanced(i) > SCALE) =>
                         bar_directions'[i] = 0 - bar_directions[i]]_vars

\* C14 witness: the bar that started at height 0.97, direction +1, speed 0.05
\* has made one playing tick in which a flip was drawn for it and is at 1.0
\* with direction +1.
ClampThenFlipWitness ==
    /\ ticks = 1 /\ is_playing /\ last = "update_equalizer" /\ flips_drawn = {1}
    /\ decay_from[1] = 970000 /\ bar_speeds[1] = 50000
    /\ bar_heights[1] = SCALE /\ bar_directions[1] = 1

\* C15: a drawn frame of a width x height canvas holds one bar fill per bar
\* index i = 0..15, with x = i * (width / 16), pixel height
\* heights[i] * (height - 10) and y = height - pixel height - 5; the bottom
\* edge y + pixel height is height - 5 and, when height >= 10, y >= 5.
BarGeometry ==
    commands # <<>> =>
       /\ DOMAIN commands = 1..16
       /\ \A i \in 1..16 :
             /\ commands[i].x = (i - 1) * canvas[1]
             /\ commands[i].bar_height = bar_heights[i] * (canvas[2] - 10)
             /\ commands[i].y = (canvas[2] - 5) * SCALE - commands[i].bar_height
             /\ commands[i].y + commands[i].bar_height = (canvas[2] - 5) * SCALE
             /\ canvas[2] >= 10 => commands[i].y >= 5 * SCALE

\* C15 witness: a frame drawn on the 200 x 60 canvas after a playing tick, with
\* a bar of height 1.0 whose top edge is at y = 5 and a bar of height 0.1
\* whose top edge is at y = 50.
BarGeometryWitness ==
    /\ last = "draw_equalizer" /\ canvas = <<200, 60>> /\ ticks > 0
    /\ \E i \in 1..bars : bar_heights[i] = SCALE /\ commands[i].y = 5 * SCALE
    /\ \E j \in 1..bars : 10 * bar_heights[j] = SCALE /\ commands[j].y = 50 * SCALE

\* C11: is_playing is false until the first callback runs; a step that changes
\* is_playing is an update_track_info, which sets it to the is_playing of the
\* record it got: no tick, render or button handler changes it.
IsPlayingOnlyByPoll ==
    /\ [](handler = "__init__" => ~is_playing)
    /\ [][is_playing' # is_playing =>
             /\ handler' = "update_track_info"
             /\ last' = "set_playing"
             /\ is_playing' = info'.is_playing]_vars

\* C11 witness: a poll found the player playing; then the equalizer ticked, a
\* frame was drawn and the play button paused the player: is_playing is
\* still true.
IsPlayingOnlyByPollWitness ==
    /\ is_playing /\ handler = "on_play_clicked" /\ sent = "PlayPause"
    /\ player = "paused" /\ ticks > 0 /\ commands # <<>>

\* C12: after a poll whose get_track_info had no backend, connection, session
\* or process to query, or whose query raised, the record is a placeholder
\* with is_playing false and the equalizer's is_playing is false.
PollFailurePauses ==
    (handler = "update_track_info" /\ query \in {"skipped", "raised"}) =>
       /\ info.status \in {"Not connected", "Error", "Offline", "Unknown"}
       /\ ~info.is_playing
       /\ ~is_playing

\* C12 witness: the Linux controller's query raised in a poll that found the
\* equalizer playing, and the equalizer is paused.
PollFailureWitness ==
    /\ backend = "LinuxMPRISController" /\ mpris
    /\ handler = "update_track_info" /\ query = "raised" /\ info.status = "Error"
    /\ was_playing /\ ~is_playing

\* C16: while an update_equalizer is between its first bar and its
\* queue_draw, no other callback has been dispatched and is_playing is the
\* value that tick read; the bars of a drawn frame have the heights of the
\* last completed tick; and a step of a load_cover thread leaves the
\* equalizer and its frame as they were.
SerializedTick ==
    /\ [](/\ tick_at # 0 =>
              /\ handler = "update_equalizer" /\ last = "update_equalizer"
              /\ is_playing = tick_branch
          /\ commands # <<>> =>
              \A i \in 1..bars :
                 commands[i].bar_height =
                    (IF tick_at = 0 THEN bar_heights[i] ELSE tick_from[i])
                       * (canvas[2] - 10))
    /\ [][loaders' < loaders => UNCHANGED <<engine, canvas, commands>>]_vars

\* C16 witness: a playing tick has handled some bars and not the last one,
\* while a frame drawn before it is on screen and a set_album_cover handed
\* over by a load_cover thread waits in the main loop.
SerializedTickWitness ==
    /\ tick_at \in 2..bars /\ tick_branch /\ bar_heights # tick_from
    /\ commands # <<>> /\ idle > 0 /\ loaders = 0

\* C17: mpris never changes after construction, and while the Linux
\* controller has no proxy every poll returns the 'Not connected'
\* placeholder, the equalizer's is_playing is false and no callback delivers
\* a command to the player.
NoReconnect ==
    /\ []((backend = "LinuxMPRISController" /\ ~mpris) =>
             /\ ~is_playing
             /\ sent = "none"
             /\ info \in {NoInfo, NotConnected})
    /\ [][mpris' = mpris]_vars

\* C17 witness: the Linux controller has no proxy and the player is playing;
\* a poll returned 'Not connected', the equalizer ticked paused, and the play
\* button then delivered nothing.
NoReconnectWitness ==
    /\ backend = "LinuxMPRISController" /\ ~mpris /\ player = "playing"
    /\ info = NotConnected /\ handler = "on_play_clicked" /\ sent = "none"
    /\ ~is_playing /\ paused_ticks > 0


=============================================================================
